---------------------------- MODULE Spec2Model ----------------------------
(***************************************************************************)
(* Model of Drawercli.go: an application drawer for the terminal.  The     *)
(* program lists the installed packages, probes each one in a pool of      *)
(* worker goroutines (entry point, install path, label), collects the      *)
(* records, sorts them by label, hands them to fzf and launches the        *)
(* chosen application or opens its store page.                             *)
(*                                                                         *)
(* Go strings are modelled by TLA+ strings; the operators below compute    *)
(* the functions of package strings and bufio the program uses, over the   *)
(* characters listed in Ascii.                                             *)
(***************************************************************************)
EXTENDS Bags, FiniteSets, Integers, Sequences, TLC

(***************************************************************************)
(* Bounds of the model.                                                    *)
(***************************************************************************)
\* longest list of identifiers the listing tool reports
MaxPkgs == 3
\* number of processing units of the runs that probe packages
MaxCPU == 5
\* largest number of processing units of the runs that only size the pool
MaxCPUClamp == 64

(***************************************************************************)
(* The state.                                                              *)
(***************************************************************************)
VARIABLES
  listing,     \* what the listing tool does in this run
  ncpu,        \* runtime.NumCPU() of this run
  pc,          \* where main is
  pkgs,        \* main: pkgs
  err,         \* main: err, as returned by getPackages
  numWorkers,  \* main: numWorkers
  i,           \* main: the index of the loop it is in
  in,          \* the buffer of channel in
  inClosed,    \* whether in is closed
  out,         \* the buffer of channel out
  outClosed,   \* whether out is closed
  wg,          \* the counter of the WaitGroup
  workers,     \* the worker goroutines, a bag of [pc, pkg, info]
  closer,      \* where the goroutine that closes out is
  apps,        \* main: apps
  fzfInput,    \* main: fzfInput
  chosenBuf,   \* main: chosenBuf
  sel,         \* the number of the line the selector returned, 0 if none
  pkg,         \* main: pkg
  intent,      \* main: intent
  stderr,      \* the lines the program wrote to os.Stderr
  ran,         \* the launch and open commands main ran
  exitCode     \* the exit status, once pc = "exit"

(***************************************************************************)
(* Strings.                                                                *)
(***************************************************************************)
\* the characters of the model, in byte order
Ascii ==
  "\t\n !'-./0123456789:=ABCDEFGHIJKLMNOPQRSTUVWXYZ_abcdefghijklmnopqrstuvwxyz|"

Upper == "ABCDEFGHIJKLMNOPQRSTUVWXYZ"

Lower == "abcdefghijklmnopqrstuvwxyz"

Char(s, j) == SubSeq(s, j, j)

\* the rank of a character in byte order
Ord(c) == CHOOSE j \in 1..Len(Ascii) : Char(Ascii, j) = c

SetMin(S) == CHOOSE m \in S : \A n \in S : m <= n

SetMax(S) == CHOOSE m \in S : \A n \in S : n <= m

\* unicode.IsSpace, on the characters of the model
IsSpace(c) == c \in {" ", "\t", "\n"}

\* strings.TrimSpace
TrimSpace(s) ==
  LET keep == {j \in 1..Len(s) : ~IsSpace(Char(s, j))}
  IN  IF keep = {} THEN "" ELSE SubSeq(s, SetMin(keep), SetMax(keep))

\* strings.Trim(s, cutset)
Trim(s, cutset) ==
  LET inCut(c) == \E k \in 1..Len(cutset) : Char(cutset, k) = c
      keep == {j \in 1..Len(s) : ~inCut(Char(s, j))}
  IN  IF keep = {} THEN "" ELSE SubSeq(s, SetMin(keep), SetMax(keep))

\* strings.Index: the 0-based offset of the first occurrence, -1 if none
Index(s, substr) ==
  LET hits == {j \in 1..(Len(s) - Len(substr) + 1) :
                 SubSeq(s, j, j + Len(substr) - 1) = substr}
  IN  IF hits = {} THEN -1 ELSE SetMin(hits) - 1

\* strings.Contains
Contains(s, substr) == Index(s, substr) >= 0

\* strings.HasPrefix
HasPrefix(s, prefix) ==
  Len(s) >= Len(prefix) /\ SubSeq(s, 1, Len(prefix)) = prefix

\* strings.TrimPrefix
TrimPrefix(s, prefix) ==
  IF HasPrefix(s, prefix) THEN SubSeq(s, Len(prefix) + 1, Len(s)) ELSE s

\* s[k:], with k a 0-based offset
From(s, k) == SubSeq(s, k + 1, Len(s))

\* strings.Split(s, sep), for a non-empty separator
RECURSIVE Split(_, _)
Split(s, sep) ==
  LET k == Index(s, sep)
  IN  IF k < 0 THEN <<s>>
      ELSE <<SubSeq(s, 1, k)>> \o Split(From(s, k + Len(sep)), sep)

\* strings.SplitN(s, sep, 2): cut at the first separator only
SplitN2(s, sep) ==
  LET k == Index(s, sep)
  IN  IF k < 0 THEN <<s>>
      ELSE <<SubSeq(s, 1, k), From(s, k + Len(sep))>>

\* the lines bufio.Scanner yields: split at newlines, no empty last line
ScanLines(s) ==
  IF s = "" THEN <<>>
  ELSE LET parts == Split(s, "\n")
       IN  IF parts[Len(parts)] = "" THEN SubSeq(parts, 1, Len(parts) - 1)
           ELSE parts

\* strings.ToLower of one character
LowerChar(c) ==
  IF \E k \in 1..Len(Upper) : Char(Upper, k) = c
  THEN Char(Lower, CHOOSE k \in 1..Len(Upper) : Char(Upper, k) = c)
  ELSE c

\* strings.ToLower
RECURSIVE ToLower(_)
ToLower(s) ==
  IF s = "" THEN "" ELSE LowerChar(Char(s, 1)) \o ToLower(From(s, 1))

\* the < of two Go strings: byte-wise lexicographic order
StrLess(a, b) ==
  LET n == IF Len(a) < Len(b) THEN Len(a) ELSE Len(b)
      diff == {j \in 1..n : Char(a, j) # Char(b, j)}
  IN  IF diff = {} THEN Len(a) < Len(b)
      ELSE Ord(Char(a, SetMin(diff))) < Ord(Char(b, SetMin(diff)))


(***************************************************************************)
(* External tools.  What a command does is its standard output, its        *)
(* standard error and whether Run reported an error (a non-zero exit, a    *)
(* missing binary, or the context's deadline killing the process).         *)
(***************************************************************************)
Tool(o, e, failed) == [out |-> o, errb |-> e, err |-> failed]

\* runCmd: the trimmed output, with the error stream appended on failure
RunCmd(t) ==
  IF t.err THEN [out |-> TrimSpace(t.out \o "\n" \o t.errb), err |-> TRUE]
  ELSE [out |-> TrimSpace(t.out), err |-> FALSE]

\* runCmdBytes is called by probePackage and defined nowhere in the file:
\* taken to be the invoker of the design, which returns the trimmed output
\* of both streams and the outcome
RunCmdBytes(t) ==
  [out |-> TrimSpace(t.out \o (IF t.errb = "" THEN "" ELSE "\n" \o t.errb)),
   err |-> t.err]

\* a command that was killed at its deadline before it wrote anything
TimedOut == Tool("", "", TRUE)

\* the device: for each identifier, what pm resolve-activity, pm path and
\* aapt dump badging answer (the same answer every time they are asked)
Device(id) ==
  CASE id = "com.android.chrome" ->
         [resolve |-> Tool("priority=0\n  name=com.android.chrome.Main\n", "", FALSE),
          path    |-> Tool("package:/app/chrome.apk\n", "", FALSE),
          aapt    |-> Tool("package: name='com.android.chrome'\napplication-label:'Chrome'\napplication-label-en:'Chrome EN'\n", "", FALSE)]
    [] id = "org.banana" ->
         [resolve |-> Tool("name=org.banana.Main\n", "", FALSE),
          path    |-> Tool("\npackage:/app/b.apk\npackage:/app/b2.apk\n", "", FALSE),
          aapt    |-> Tool("application-label:'Banana'\n", "", FALSE)]
    [] id = "org.apple" ->
         [resolve |-> Tool("x\nname= org.apple.Main \nname=other\n", "", FALSE),
          path    |-> Tool("/app/a.apk\n", "", FALSE),
          aapt    |-> Tool("application-label:'apple'\n", "", FALSE)]
    [] id = "net.maps" ->
         [resolve |-> Tool("name=net.maps.Main\n", "", FALSE),
          path    |-> Tool("package:/app/m.apk\n", "", FALSE),
          aapt    |-> Tool("application-label:'Maps'\n", "", FALSE)]
    [] id = "io.maps" ->
         [resolve |-> Tool("name=io.maps.Main\n", "", FALSE),
          path    |-> Tool("package:/app/n.apk\n", "", FALSE),
          aapt    |-> Tool("application-label:'maps'\n", "", FALSE)]
    [] id = "com.example.app" ->
         [resolve |-> Tool("No activity found\n", "", FALSE),
          path    |-> Tool("", "", TRUE),
          aapt    |-> Tool("application-label:'Never'\n", "", FALSE)]
    [] id = "dev.tab" ->
         [resolve |-> Tool("name=dev.tab.Main\n", "", FALSE),
          path    |-> Tool("package:/app/t.apk\n", "", FALSE),
          aapt    |-> Tool("application-label:'My\tApp'\n", "", FALSE)]
    [] id = "dev.blank" ->
         [resolve |-> Tool("name=dev.blank.Main\n", "", FALSE),
          path    |-> Tool("package:/app/s.apk\n", "", FALSE),
          aapt    |-> Tool("x\napplication-label:' '\n", "", FALSE)]
    [] id = "dev.aaptfail" ->
         [resolve |-> Tool("name=dev.aaptfail.Main\n", "", TRUE),
          path    |-> Tool("package:/app/f.apk\n", "", FALSE),
          aapt    |-> Tool("application-label:'Ghost'\n", "bad apk", TRUE)]
    [] id = "dev.nomarker" ->
         [resolve |-> Tool("x\nname=  \n", "", FALSE),
          path    |-> Tool("package:/app/k.apk\n", "", FALSE),
          aapt    |-> Tool("package: name='dev.nomarker'\napplication-label-en:'No'\n", "", FALSE)]
    [] id = "dev.emptylabel" ->
         [resolve |-> Tool("", "no MAIN", TRUE),
          path    |-> Tool("package:/app/e.apk\n", "", FALSE),
          aapt    |-> Tool("application-label:''\napplication-label:'Late'\n", "", FALSE)]
    [] id = "dev.nooutput" ->
         [resolve |-> Tool("name=dev.nooutput.Main\n", "", FALSE),
          path    |-> Tool("package:/app/o.apk\n", "", FALSE),
          aapt    |-> Tool("", "", FALSE)]
    [] OTHER ->
         [resolve |-> TimedOut, path |-> TimedOut, aapt |-> TimedOut]

\* the identifiers installed on the device, in the order pm lists them
Installed ==
  << "com.android.chrome", "com.android.chrome", "org.banana", "org.apple",
     "net.maps", "io.maps", "com.example.app", "dev.tab", "dev.blank",
     "dev.aaptfail", "dev.nomarker", "dev.emptylabel", "dev.timeout",
     "dev.nooutput" >>

(***************************************************************************)
(* getPackages, firstLineContaining, probePackage.                         *)
(***************************************************************************)
\* the loop of getPackages over the lines of the listing
RECURSIVE PackageLines(_)
PackageLines(lines) ==
  IF lines = <<>> THEN <<>>
  ELSE LET l == TrimPrefix(TrimSpace(Head(lines)), "package:")
       IN  (IF l # "" THEN <<l>> ELSE <<>>) \o PackageLines(Tail(lines))

\* getPackages: the identifiers of the listing; the error is always nil
GetPackages(t) ==
  LET r == RunCmd(t)
  IN  [pkgs |-> IF r.out = "" THEN <<>> ELSE PackageLines(Split(r.out, "\n")),
       err  |-> FALSE]

\* firstLineContaining
FirstLineContaining(s, substr) ==
  LET lines == ScanLines(s)
      hits == {j \in 1..Len(lines) : Contains(lines[j], substr)}
  IN  IF hits = {} THEN "" ELSE lines[SetMin(hits)]

\* probePackage, the main activity: the text after name= on the first line
\* that has it; the error of the lookup is dropped
ResolveMain(t) ==
  LET resOut == RunCmd(t).out
      line == FirstLineContaining(resOut, "name=")
  IN  IF line # "" /\ Index(line, "name=") >= 0
      THEN TrimSpace(From(line, Index(line, "name=") + Len("name=")))
      ELSE ""

\* probePackage, the apk path: the first non-empty line, prefix stripped
ResolvePath(t) ==
  LET lines == Split(RunCmd(t).out, "\n")
      strip(l) == TrimPrefix(TrimSpace(l), "package:")
      hits == {j \in 1..Len(lines) : strip(lines[j]) # ""}
  IN  IF hits = {} THEN "" ELSE strip(lines[SetMin(hits)])

\* the label, were the error of aapt ignored as the other errors are
ResolveLabelIgnoringError(apkPath, t) ==
  IF apkPath = "" THEN ""
  ELSE LET r == RunCmdBytes(t)
           lines == ScanLines(r.out)
           hits == {j \in 1..Len(lines) :
                      Contains(lines[j], "application-label:")}
           l == lines[SetMin(hits)]
       IN  IF r.out # "" /\ hits # {}
           THEN Trim(From(l, Index(l, "application-label:")
                                + Len("application-label:")), "'")
           ELSE ""

\* probePackage, the label: the text after application-label: on the first
\* line that has it, quotes trimmed, when aapt succeeded with some output
ResolveLabel(apkPath, t) ==
  IF apkPath = "" THEN ""
  ELSE LET r == RunCmdBytes(t)
           lines == ScanLines(r.out)
           hits == {j \in 1..Len(lines) :
                      Contains(lines[j], "application-label:")}
           l == lines[SetMin(hits)]
       IN  IF ~r.err /\ r.out # "" /\ hits # {}
           THEN Trim(From(l, Index(l, "application-label:")
                                + Len("application-label:")), "'")
           ELSE ""

\* the fallback, were it another text than the one main tests for
FallbackMainOther == "UNKNOWN"

\* the text probePackage puts in Main when it found no main activity
FallbackMain == "UNKNOWN_MAIN"

\* type AppInfo
AppInfo(label, id, main) == [Label |-> label, Package |-> id, Main |-> main]

\* the nil *AppInfo
NilInfo == AppInfo("", "", "")

\* probePackage, were it to return the error of a lookup that failed
ProbePackageFailing(p) ==
  LET d == Device(p)
      main == ResolveMain(d.resolve)
      label == ResolveLabel(ResolvePath(d.path), d.aapt)
  IN  [info |-> AppInfo(IF label = "" THEN p ELSE label,
                        p,
                        IF main = "" THEN FallbackMain ELSE main),
       err  |-> d.resolve.err]

\* probePackage: the record of one identifier, and a nil error
ProbePackage(id) ==
  LET d == Device(id)
      main == ResolveMain(d.resolve)
      label == ResolveLabel(ResolvePath(d.path), d.aapt)
  IN  [info |-> AppInfo(IF label = "" THEN id ELSE label,
                        id,
                        IF main = "" THEN FallbackMain ELSE main),
       err  |-> FALSE]

(***************************************************************************)
(* The pieces of main that compute.                                        *)
(***************************************************************************)
\* the clamp, were the upper limit missing
ClampWorkersNoMax(n) == IF n < 4 THEN 4 ELSE n

\* the clamp of runtime.NumCPU() to 4..16
ClampWorkers(n) ==
  LET atLeast == IF n < 4 THEN 4 ELSE n
  IN  IF atLeast > 16 THEN 16 ELSE atLeast

\* the less function, were it to compare the labels as they are
LabelLessCaseSensitive(a, b) == StrLess(a.Label, b.Label)

\* the less function given to sort.Slice
LabelLess(a, b) == StrLess(ToLower(a.Label), ToLower(b.Label))

\* fmt.Sprintf("%s\t%s|%s\n", a.Label, a.Package, a.Main)
FormatLine(a) == a.Label \o "\t" \o a.Package \o "|" \o a.Main \o "\n"

\* the buffer written to the selector's standard input
RECURSIVE FzfInput(_)
FzfInput(a) ==
  IF a = <<>> THEN "" ELSE FormatLine(Head(a)) \o FzfInput(Tail(a))

\* the parse, were a part without pipe taken for a package without intent
ParseChosenLenient(buf) ==
  LET chosenLine == TrimSpace(buf)
      parts == SplitN2(chosenLine, "\t")
      pair == SplitN2(parts[2], "|")
  IN  IF chosenLine = "" THEN [res |-> "cancelled", pkg |-> "", intent |-> ""]
      ELSE IF Len(parts) < 2
      THEN [res |-> "unexpected selection format", pkg |-> "", intent |-> ""]
      ELSE [res |-> "ok", pkg |-> pair[1],
            intent |-> IF Len(pair) < 2 THEN "" ELSE pair[2]]

\* the parse of the selector's output: the outcome and, when it is "ok",
\* the package and the intent
ParseChosen(buf) ==
  LET chosenLine == TrimSpace(buf)
      parts == SplitN2(chosenLine, "\t")
      pair == SplitN2(parts[2], "|")
  IN  IF chosenLine = "" THEN [res |-> "cancelled", pkg |-> "", intent |-> ""]
      ELSE IF Len(parts) < 2
      THEN [res |-> "unexpected selection format", pkg |-> "", intent |-> ""]
      ELSE IF Len(pair) < 2
      THEN [res |-> "unexpected package|main format", pkg |-> "", intent |-> ""]
      ELSE [res |-> "ok", pkg |-> pair[1], intent |-> pair[2]]

\* the text main compares the intent with
DispatchSentinel == "UNKNOWN_MAIN"

\* the dispatch, were the test for the sentinel missing
DispatchCmdAlwaysLaunch(p, target) ==
  [tool |-> "am", arg |-> p \o "/" \o target]

\* the command main runs for a package and an intent
DispatchCmd(p, target) ==
  IF target = DispatchSentinel
  THEN [tool |-> "termux-open-url",
        arg  |-> "https://play.google.com/store/apps/details?id=" \o p]
  ELSE [tool |-> "am", arg |-> p \o "/" \o target]

(***************************************************************************)
(* The inputs of a run.                                                    *)
(***************************************************************************)
\* the output of pm list packages for a list of identifiers
RECURSIVE ListingText(_)
ListingText(w) ==
  IF w = <<>> THEN ""
  ELSE "package:" \o Head(w) \o "\n" \o ListingText(Tail(w))

\* the lists the listing tool reports: stretches of the installed list
Windows ==
  {SubSeq(Installed, x[1], x[1] + x[2] - 1) :
     x \in {y \in (1..Len(Installed)) \X (0..MaxPkgs) :
              y[1] + y[2] - 1 <= Len(Installed)}}

\* what the listing tool does: it writes the list; or it writes the list
\* and a message on the error stream and fails; or it fails having written
\* nothing
Listings ==
  {t : t \in
     {u \in {Tool(ListingText(w), v[1], v[2]) :
               w \in Windows, v \in {<<"", FALSE>>, <<"Killed", TRUE>>}} :
        Len(GetPackages(u).pkgs) <= MaxPkgs}
     \cup {Tool("", "", TRUE)}}

\* a listing of one identifier more than the smallest pool has workers
Crowd ==
  Tool(ListingText(SubSeq(Installed, 1, ClampWorkers(1) + 1)), "", FALSE)

\* the listings of the model
AllListings == Listings \cup {Crowd}

\* what the selector can write when it exits with success and the line is
\* none of the lines it was given
ForeignOutputs ==
  {"", " \n",
   "SomeApp\tcom.example.app|UNKNOWN_ENTRY\n",
   "Chrome\tcom.android.chrome|com.android.chrome.Main\n",
   "SomeApp com.example.app|UNKNOWN_MAIN\n",
   "SomeApp\tcom.example.app\n",
   "Some|App\tcom.example.app\n"}

(***************************************************************************)
(* The functions of the program on the inputs of the model, computed once: *)
(* the actions below look the values up.                                   *)
(***************************************************************************)
\* the identifiers a listing of the model can yield
Identifiers ==
  {p : p \in UNION {{GetPackages(t).pkgs[k] :
                       k \in 1..Len(GetPackages(t).pkgs)} : t \in AllListings}}

\* getPackages, for each listing
Listed == [t \in AllListings |-> GetPackages(t)]

\* probePackage, for each identifier
Probed == [p \in Identifiers |-> ProbePackage(p)]

\* the records probePackage can return
AllInfos == {Probed[p].info : p \in Identifiers}

\* the less function of the sort, for each pair of records
Less == [a \in AllInfos, b \in AllInfos |-> LabelLess(a, b)]

\* the parse of the selector's output, for each output
Parsed ==
  [c \in {o : o \in ForeignOutputs \cup {FormatLine(a) : a \in AllInfos}} |->
     ParseChosen(c)]

\* one pass of the insertion sort: x moves left past every element it is
\* less than
RECURSIVE InsertByLabel(_, _)
InsertByLabel(s, x) ==
  IF s = <<>> \/ ~Less[x, s[Len(s)]] THEN Append(s, x)
  ELSE Append(InsertByLabel(SubSeq(s, 1, Len(s) - 1), x), s[Len(s)])

\* main, were it to leave apps as collected
SortSliceOmitted(a) == a

\* sort.Slice(apps, less): on a slice of fewer than 12 elements, as all the
\* slices of the model are, package sort runs an insertion sort
RECURSIVE SortSlice(_)
SortSlice(a) ==
  IF a = <<>> THEN <<>>
  ELSE InsertByLabel(SortSlice(SubSeq(a, 1, Len(a) - 1)), a[Len(a)])

(***************************************************************************)
(* The initial states.                                                     *)
(***************************************************************************)
vars ==
  << listing, ncpu, pc, pkgs, err, numWorkers, i, in, inClosed, out,
     outClosed, wg, workers, closer, apps, fzfInput, chosenBuf, sel, pkg,
     intent, stderr, ran, exitCode >>

mainVars ==
  << pkgs, err, numWorkers, i, apps, fzfInput, chosenBuf, sel, pkg, intent,
     stderr, ran, exitCode >>

\* a worker goroutine at the head of its loop
Idle == [pc |-> "recv", pkg |-> "", info |-> NilInfo]

\* the state but for the inputs of the run
Start ==
  /\ pc = "getPackages"
  /\ pkgs = <<>>
  /\ err = FALSE
  /\ numWorkers = 0
  /\ i = 0
  /\ in = <<>>
  /\ inClosed = FALSE
  /\ out = <<>>
  /\ outClosed = FALSE
  /\ wg = 0
  /\ workers = EmptyBag
  /\ closer = "none"
  /\ apps = <<>>
  /\ fzfInput = ""
  /\ chosenBuf = ""
  /\ sel = 0
  /\ pkg = ""
  /\ intent = ""
  /\ stderr = <<>>
  /\ ran = <<>>
  /\ exitCode = 0

\* the runs that probe packages: the short listings on MaxCPU processing
\* units, and the crowd on one
Init ==
  /\ \/ listing \in Listings /\ ncpu = MaxCPU
     \/ listing = Crowd /\ ncpu = 1
  /\ Start

\* the runs that size the pool: every number of processing units, one package
InitClamp ==
  /\ listing = Tool(ListingText(<<Installed[1]>>), "", FALSE)
  /\ ncpu \in 1..MaxCPUClamp
  /\ Start

(***************************************************************************)
(* main.                                                                   *)
(***************************************************************************)
\* the process has not exited
Alive == pc # "exit"

\* os.Exit(code), and the return of main with code 0
Exit(code) == pc' = "exit" /\ exitCode' = code

\* pkgs, err := getPackages(ctx)
CallGetPackages ==
  /\ pc = "getPackages"
  /\ pkgs' = Listed[listing].pkgs
  /\ err' = Listed[listing].err
  /\ pc' = "checkPackages"
  /\ UNCHANGED << listing, ncpu, numWorkers, i, in, inClosed, out, outClosed,
                  wg, workers, closer, apps, fzfInput, chosenBuf, sel, pkg,
                  intent, stderr, ran, exitCode >>

\* the check of pkgs, were the exit missing after the message
CheckPackagesGoesOn ==
  /\ pc = "checkPackages"
  /\ stderr' = stderr
               \o (IF err THEN <<"error listing packages:">> ELSE <<>>)
               \o (IF Len(pkgs) = 0 THEN <<"no packages found">> ELSE <<>>)
  /\ pc' = "sizePool"
  /\ UNCHANGED << listing, ncpu, pkgs, err, numWorkers, i, in, inClosed, out,
                  outClosed, wg, workers, closer, apps, fzfInput, chosenBuf,
                  sel, pkg, intent, ran, exitCode >>

\* the warning for err != nil, and the exit when no package was found
CheckPackages ==
  /\ pc = "checkPackages"
  /\ stderr' = stderr
               \o (IF err THEN <<"error listing packages:">> ELSE <<>>)
               \o (IF Len(pkgs) = 0 THEN <<"no packages found">> ELSE <<>>)
  /\ IF Len(pkgs) = 0 THEN Exit(1)
     ELSE pc' = "sizePool" /\ UNCHANGED exitCode
  /\ UNCHANGED << listing, ncpu, pkgs, err, numWorkers, i, in, inClosed, out,
                  outClosed, wg, workers, closer, apps, fzfInput, chosenBuf,
                  sel, pkg, intent, ran >>

\* numWorkers, and the two channels and the WaitGroup, all empty
SizePool ==
  /\ pc = "sizePool"
  /\ numWorkers' = ClampWorkers(ncpu)
  /\ i' = 0
  /\ in' = <<>> /\ inClosed' = FALSE
  /\ out' = <<>> /\ outClosed' = FALSE
  /\ wg' = 0
  /\ pc' = IF 0 < numWorkers' THEN "spawn" ELSE "enqueue"
  /\ UNCHANGED << listing, ncpu, pkgs, err, workers, closer, apps, fzfInput,
                  chosenBuf, sel, pkg, intent, stderr, ran, exitCode >>

\* one round of the loop that starts the workers: wg.Add(1); go func
SpawnWorker ==
  /\ pc = "spawn"
  /\ wg' = wg + 1
  /\ workers' = workers (+) SetToBag({Idle})
  /\ i' = IF i + 1 < numWorkers THEN i + 1 ELSE 0
  /\ pc' = IF i + 1 < numWorkers THEN "spawn" ELSE "enqueue"
  /\ UNCHANGED << listing, ncpu, pkgs, err, numWorkers, in, inClosed, out,
                  outClosed, closer, apps, fzfInput, chosenBuf, sel, pkg,
                  intent, stderr, ran, exitCode >>

\* the loop that fills the queue, were it to send the first identifier in
\* every round
EnqueueFirstAgain ==
  /\ pc = "enqueue"
  /\ Len(in) < Len(pkgs)
  /\ in' = Append(in, pkgs[1])
  /\ i' = IF i + 1 < Len(pkgs) THEN i + 1 ELSE 0
  /\ pc' = IF i + 1 < Len(pkgs) THEN "enqueue" ELSE "closeIn"
  /\ UNCHANGED << listing, ncpu, pkgs, err, numWorkers, inClosed, out,
                  outClosed, wg, workers, closer, apps, fzfInput, chosenBuf,
                  sel, pkg, intent, stderr, ran, exitCode >>

\* one round of the loop that fills the queue: in <- p, which waits for room
Enqueue ==
  /\ pc = "enqueue"
  /\ Len(in) < Len(pkgs)
  /\ in' = Append(in, pkgs[i + 1])
  /\ i' = IF i + 1 < Len(pkgs) THEN i + 1 ELSE 0
  /\ pc' = IF i + 1 < Len(pkgs) THEN "enqueue" ELSE "closeIn"
  /\ UNCHANGED << listing, ncpu, pkgs, err, numWorkers, inClosed, out,
                  outClosed, wg, workers, closer, apps, fzfInput, chosenBuf,
                  sel, pkg, intent, stderr, ran, exitCode >>

\* main, were it to go on without close(in)
CloseInForgotten ==
  /\ pc = "closeIn"
  /\ pc' = "startCloser"
  /\ UNCHANGED << listing, ncpu, pkgs, err, numWorkers, i, in, inClosed, out,
                  outClosed, wg, workers, closer, apps, fzfInput, chosenBuf,
                  sel, pkg, intent, stderr, ran, exitCode >>

\* close(in)
CloseIn ==
  /\ pc = "closeIn"
  /\ inClosed' = TRUE
  /\ pc' = "startCloser"
  /\ UNCHANGED << listing, ncpu, pkgs, err, numWorkers, i, in, out, outClosed,
                  wg, workers, closer, apps, fzfInput, chosenBuf, sel, pkg,
                  intent, stderr, ran, exitCode >>

\* go func() { wg.Wait(); close(out) }()
StartCloser ==
  /\ pc = "startCloser"
  /\ closer' = "wait"
  /\ pc' = "drain"
  /\ UNCHANGED << listing, ncpu, pkgs, err, numWorkers, i, in, inClosed, out,
                  outClosed, wg, workers, apps, fzfInput, chosenBuf, sel, pkg,
                  intent, stderr, ran, exitCode >>

\* one round of for a := range out: apps = append(apps, a)
Drain ==
  /\ pc = "drain"
  /\ out # <<>>
  /\ apps' = Append(apps, Head(out))
  /\ out' = Tail(out)
  /\ UNCHANGED << listing, ncpu, pc, pkgs, err, numWorkers, i, in, inClosed,
                  outClosed, wg, workers, closer, fzfInput, chosenBuf, sel,
                  pkg, intent, stderr, ran, exitCode >>

\* the end of the loop over out, were it taken whenever out is empty
DrainEndEarly ==
  /\ pc = "drain"
  /\ out = <<>>
  /\ pc' = "sort"
  /\ UNCHANGED << listing, ncpu, pkgs, err, numWorkers, i, in, inClosed, out,
                  outClosed, wg, workers, closer, apps, fzfInput, chosenBuf,
                  sel, pkg, intent, stderr, ran, exitCode >>

\* the end of for a := range out: out is closed and empty
DrainEnd ==
  /\ pc = "drain"
  /\ out = <<>>
  /\ outClosed
  /\ pc' = "sort"
  /\ UNCHANGED << listing, ncpu, pkgs, err, numWorkers, i, in, inClosed, out,
                  outClosed, wg, workers, closer, apps, fzfInput, chosenBuf,
                  sel, pkg, intent, stderr, ran, exitCode >>

\* sort.Slice(apps, ...)
SortApps ==
  /\ pc = "sort"
  /\ apps' = SortSlice(apps)
  /\ pc' = "serialize"
  /\ UNCHANGED << listing, ncpu, pkgs, err, numWorkers, i, in, inClosed, out,
                  outClosed, wg, workers, closer, fzfInput, chosenBuf, sel,
                  pkg, intent, stderr, ran, exitCode >>

\* the loop that writes one line per record to fzfInput
Serialize ==
  /\ pc = "serialize"
  /\ fzfInput' = FzfInput(apps)
  /\ pc' = "fzf"
  /\ UNCHANGED << listing, ncpu, pkgs, err, numWorkers, i, in, inClosed, out,
                  outClosed, wg, workers, closer, apps, chosenBuf, sel, pkg,
                  intent, stderr, ran, exitCode >>

\* the run of the selector, were main to return when it fails
RunFzfReturnsOnFailure ==
  /\ pc = "fzf"
  /\ \/ /\ Exit(0)
        /\ UNCHANGED << chosenBuf, sel >>
     \/ /\ \E n \in 1..Len(ScanLines(fzfInput)) :
             /\ chosenBuf' = ScanLines(fzfInput)[n] \o "\n"
             /\ sel' = n
        /\ pc' = "parse"
        /\ UNCHANGED exitCode
     \/ /\ chosenBuf' \in ForeignOutputs
        /\ sel' = 0
        /\ pc' = "parse"
        /\ UNCHANGED exitCode
  /\ UNCHANGED << listing, ncpu, pkgs, err, numWorkers, i, in, inClosed, out,
                  outClosed, wg, workers, closer, apps, fzfInput, pkg, intent,
                  stderr, ran >>

\* fzfCmd.Run(): the selector fails, or returns one of its lines, or
\* returns something else
RunFzf ==
  /\ pc = "fzf"
  /\ \/ /\ Exit(1)
        /\ UNCHANGED << chosenBuf, sel >>
     \/ /\ \E n \in 1..Len(ScanLines(fzfInput)) :
             /\ chosenBuf' = ScanLines(fzfInput)[n] \o "\n"
             /\ sel' = n
        /\ pc' = "parse"
        /\ UNCHANGED exitCode
     \/ /\ chosenBuf' \in ForeignOutputs
        /\ sel' = 0
        /\ pc' = "parse"
        /\ UNCHANGED exitCode
  /\ UNCHANGED << listing, ncpu, pkgs, err, numWorkers, i, in, inClosed, out,
                  outClosed, wg, workers, closer, apps, fzfInput, pkg, intent,
                  stderr, ran >>

\* from chosen := strings.TrimSpace(...) to intent := pair[1]
Parse ==
  /\ pc = "parse"
  /\ LET r == Parsed[chosenBuf]
     IN  CASE r.res = "ok" ->
                /\ pkg' = r.pkg
                /\ intent' = r.intent
                /\ pc' = "dispatch"
                /\ UNCHANGED << stderr, exitCode >>
           [] r.res = "cancelled" ->
                /\ Exit(1)
                /\ UNCHANGED << pkg, intent, stderr >>
           [] OTHER ->
                /\ stderr' = Append(stderr, r.res)
                /\ Exit(1)
                /\ UNCHANGED << pkg, intent >>
  /\ UNCHANGED << listing, ncpu, pkgs, err, numWorkers, i, in, inClosed, out,
                  outClosed, wg, workers, closer, apps, fzfInput, chosenBuf,
                  sel, ran >>

\* the dispatch, were a command that failed to end the run with status 1
DispatchEscalating ==
  /\ pc = "dispatch"
  /\ \E ok \in BOOLEAN :
       /\ ran' = Append(ran, [tool |-> DispatchCmd(pkg, intent).tool,
                              arg  |-> DispatchCmd(pkg, intent).arg,
                              ok   |-> ok])
       /\ Exit(IF ok THEN 0 ELSE 1)
  /\ UNCHANGED << listing, ncpu, pkgs, err, numWorkers, i, in, inClosed, out,
                  outClosed, wg, workers, closer, apps, fzfInput, chosenBuf,
                  sel, pkg, intent, stderr >>

\* the launch or the store page, whose outcome is dropped, and the return
Dispatch ==
  /\ pc = "dispatch"
  /\ \E ok \in BOOLEAN :
       ran' = Append(ran, [tool |-> DispatchCmd(pkg, intent).tool,
                           arg  |-> DispatchCmd(pkg, intent).arg,
                           ok   |-> ok])
  /\ Exit(0)
  /\ UNCHANGED << listing, ncpu, pkgs, err, numWorkers, i, in, inClosed, out,
                  outClosed, wg, workers, closer, apps, fzfInput, chosenBuf,
                  sel, pkg, intent, stderr >>

(***************************************************************************)
(* The worker goroutines and the goroutine that closes out.                *)
(***************************************************************************)
\* the workers with worker w replaced by a worker in state v
Step(w, v) == (workers (-) SetToBag({w})) (+) SetToBag({v})

\* for pkg := range in: an identifier is received
WorkerRecv(w) ==
  /\ Alive
  /\ w.pc = "recv"
  /\ in # <<>>
  /\ in' = Tail(in)
  /\ workers' = Step(w, [pc |-> "probe", pkg |-> Head(in), info |-> NilInfo])
  /\ UNCHANGED << listing, ncpu, pc, inClosed, out, outClosed, wg, closer >>
  /\ UNCHANGED mainVars

\* for pkg := range in: in is closed and empty; the deferred wg.Done()
WorkerExit(w) ==
  /\ Alive
  /\ w.pc = "recv"
  /\ in = <<>>
  /\ inClosed
  /\ wg' = wg - 1
  /\ workers' = Step(w, [pc |-> "done", pkg |-> "", info |-> NilInfo])
  /\ UNCHANGED << listing, ncpu, pc, in, inClosed, out, outClosed, closer >>
  /\ UNCHANGED mainVars

\* the worker, were it to skip an identifier whose lookup failed
WorkerProbeSkipsFailed(w) ==
  /\ Alive
  /\ w.pc = "probe"
  /\ LET r == Probed[w.pkg]
     IN  workers' = Step(w, IF ~Device(w.pkg).resolve.err /\ r.info # NilInfo
                            THEN [pc |-> "send", pkg |-> w.pkg, info |-> r.info]
                            ELSE Idle)
  /\ UNCHANGED << listing, ncpu, pc, in, inClosed, out, outClosed, wg, closer >>
  /\ UNCHANGED mainVars

\* info, err := probePackage(pctx, pkg), within the deadline or not
WorkerProbe(w) ==
  /\ Alive
  /\ w.pc = "probe"
  /\ LET r == Probed[w.pkg]
     IN  workers' = Step(w, IF ~r.err /\ r.info # NilInfo
                            THEN [pc |-> "send", pkg |-> w.pkg, info |-> r.info]
                            ELSE Idle)
  /\ UNCHANGED << listing, ncpu, pc, in, inClosed, out, outClosed, wg, closer >>
  /\ UNCHANGED mainVars

\* out <- info, which waits for room and panics when out is closed
WorkerSend(w) ==
  /\ Alive
  /\ w.pc = "send"
  /\ IF outClosed
     THEN /\ Exit(2)
          /\ stderr' = Append(stderr, "panic: send on closed channel")
          /\ UNCHANGED << out, workers >>
     ELSE /\ Len(out) < Len(pkgs)
          /\ out' = Append(out, w.info)
          /\ workers' = Step(w, Idle)
          /\ UNCHANGED << pc, exitCode, stderr >>
  /\ UNCHANGED << listing, ncpu, in, inClosed, outClosed, wg, closer, pkgs,
                  err, numWorkers, i, apps, fzfInput, chosenBuf, sel, pkg,
                  intent, ran >>

\* the goroutine that closes out, were it not to wait for the workers
CloserWaitNoBarrier ==
  /\ Alive
  /\ closer = "wait"
  /\ closer' = "close"
  /\ UNCHANGED << listing, ncpu, pc, in, inClosed, out, outClosed, wg,
                  workers >>
  /\ UNCHANGED mainVars

\* wg.Wait() returns
CloserWait ==
  /\ Alive
  /\ closer = "wait"
  /\ wg = 0
  /\ closer' = "close"
  /\ UNCHANGED << listing, ncpu, pc, in, inClosed, out, outClosed, wg,
                  workers >>
  /\ UNCHANGED mainVars

\* close(out)
CloserClose ==
  /\ Alive
  /\ closer = "close"
  /\ outClosed' = TRUE
  /\ closer' = "done"
  /\ UNCHANGED << listing, ncpu, pc, in, inClosed, out, wg, workers >>
  /\ UNCHANGED mainVars

Worker ==
  \E w \in BagToSet(workers) :
    \/ WorkerRecv(w)
    \/ WorkerExit(w)
    \/ WorkerProbe(w)
    \/ WorkerSend(w)

Next ==
  \/ CallGetPackages
  \/ CheckPackages
  \/ SizePool
  \/ SpawnWorker
  \/ Enqueue
  \/ CloseIn
  \/ StartCloser
  \/ Drain
  \/ DrainEnd
  \/ SortApps
  \/ Serialize
  \/ RunFzf
  \/ Parse
  \/ Dispatch
  \/ Worker
  \/ CloserWait
  \/ CloserClose

Spec == Init /\ [][Next]_vars

SpecClamp == InitClamp /\ [][Next]_vars

\* the scheduler runs every goroutine that can run, and every external
\* command returns
FairSpec == Spec /\ WF_vars(Next)

(***************************************************************************)
(* Properties.                                                             *)
(***************************************************************************)
\* how many elements of a sequence are x
Count(seq, x) == Cardinality({k \in 1..Len(seq) : seq[k] = x})

\* the identifiers of a sequence of records
Packages(a) == [k \in 1..Len(a) |-> a[k].Package]

\* the record of each identifier of the queue, in the order of the queue
Records == [k \in 1..Len(pkgs) |-> Probed[pkgs[k]].info]

\* the records that exist: held by a worker, in out, or in apps
Produced ==
  {w.info : w \in {v \in BagToSet(workers) : v.pc = "send"}}
  \cup {out[k] : k \in 1..Len(out)}
  \cup {apps[k] : k \in 1..Len(apps)}

\* C1: when the loop over out has ended, apps holds as many records as
\* there are identifiers, and each identifier has as many records as it has
\* occurrences in the list
C1_OneRecordPerIdentifier ==
  pc = "sort" =>
    /\ Len(apps) = Len(pkgs)
    /\ \A k \in 1..Len(pkgs) :
         Count(Packages(apps), pkgs[k]) = Count(pkgs, pkgs[k])

\* more identifiers than workers, the first one listed twice, collected out
\* of order
C1_Witness ==
  /\ pc = "sort"
  /\ Len(pkgs) > numWorkers
  /\ pkgs[1] = pkgs[2]
  /\ apps[Len(apps)].Package = pkgs[1]
  /\ apps[1].Package # pkgs[1]

\* the run is over, and if it had packages every worker has left its loop,
\* both channels are closed and empty
Finished ==
  /\ pc = "exit"
  /\ pkgs # <<>> =>
       /\ \A w \in BagToSet(workers) : w.pc = "done"
       /\ BagCardinality(workers) = numWorkers
       /\ inClosed /\ in = <<>>
       /\ outClosed /\ out = <<>>
       /\ closer = "done"

\* C2: every run ends: the workers leave their loops, out is closed, the
\* loop over out ends and main exits
C2_Terminates == <>Finished

\* a run with fewer identifiers than workers that is over
C2_Witness ==
  /\ Finished
  /\ Len(pkgs) >= 1
  /\ Len(pkgs) < numWorkers
  /\ ran # <<>>

\* C3: when the loop over out has ended, the set of records in apps is the
\* set of the records of the identifiers, whatever the order of completion
C3_SameRecords ==
  pc = "sort" =>
    {apps[k] : k \in 1..Len(apps)} = {Records[k] : k \in 1..Len(pkgs)}

\* a full list collected in another order than the order of the queue
C3_Witness ==
  /\ pc = "sort"
  /\ Len(apps) = MaxPkgs
  /\ apps # Records
  /\ apps[MaxPkgs] = Records[1]

\* the labels of a sequence of records, in lower case
LowerLabels(a) == [k \in 1..Len(a) |-> ToLower(a[k].Label)]

\* what the selector is given in the run where the workers complete in the
\* order of the queue
Reference == FzfInput(SortSlice(Records))

\* no two records of different identifiers have the same label but for case
NoLabelTie ==
  \A j, k \in 1..Len(pkgs) :
    Records[j].Package # Records[k].Package =>
      ToLower(Records[j].Label) # ToLower(Records[k].Label)

IsSorted(a) ==
  \A k \in 1..(Len(a) - 1) :
    ~StrLess(ToLower(a[k + 1].Label), ToLower(a[k].Label))

\* the same elements, as many times each
IsPermutation(a, b) ==
  /\ Len(a) = Len(b)
  /\ \A k \in 1..Len(a) : Count(a, a[k]) = Count(b, a[k])

\* C5: the sort leaves apps a permutation of what was collected, in
\* ascending order of lower-case label, and the selector is given the lines
\* of apps in that order
C5_SortedByLabel ==
  [][/\ (pc = "sort" /\ pc' = "serialize") =>
          IsSorted(apps') /\ IsPermutation(apps, apps')
     /\ (pc = "serialize" /\ pc' = "fzf") =>
          /\ IsSorted(apps)
          /\ ScanLines(fzfInput')
               = [k \in 1..Len(apps) |->
                    apps[k].Label \o "\t" \o apps[k].Package \o "|"
                      \o apps[k].Main]]_vars

\* apple was collected after Banana and is given to the selector before it
C5_Witness ==
  /\ pc = "fzf"
  /\ pkgs = <<"org.banana", "org.apple">>
  /\ apps[1].Label = "apple"
  /\ apps[2].Label = "Banana"
  /\ Index(fzfInput, "apple") < Index(fzfInput, "Banana")

\* the lookup of the main activity of an identifier finds none
Unresolvable(id) == ResolveMain(Device(id).resolve) = ""

\* C6, as claimed: the record of an identifier without entry point has the
\* text UNKNOWN_ENTRY as its entry point
C6_SentinelEntry ==
  \A r \in Produced : Unresolvable(r.Package) => r.Main = "UNKNOWN_ENTRY"

\* C6, amended: the record of an identifier without entry point has the
\* text UNKNOWN_MAIN as its entry point, and main takes that text for the
\* sentinel: when the line of such a record is chosen and dispatched, the
\* store page is opened
C6_SentinelMain ==
  /\ \A r \in Produced : Unresolvable(r.Package) => r.Main = "UNKNOWN_MAIN"
  /\ (pc = "exit" /\ sel > 0 /\ ran # <<>> /\ Unresolvable(apps[sel].Package))
       => ran[1].tool = "termux-open-url"

\* the line of a record without entry point was chosen and dispatched
C6_Witness ==
  /\ pc = "exit"
  /\ sel > 0
  /\ ran # <<>>
  /\ Unresolvable(apps[sel].Package)
  /\ apps[sel].Main = "UNKNOWN_MAIN"

\* the extraction of the label of an identifier fails: no install path, or
\* the label tool failed, or wrote nothing, or wrote no line with the
\* marker, or the text of the first such line is empty without its quotes
LabelFails(id) ==
  LET d == Device(id)
      r == RunCmdBytes(d.aapt)
      lines == ScanLines(r.out)
      marked == {k \in 1..Len(lines) : Contains(lines[k], "application-label:")}
      first == lines[SetMin(marked)]
  IN  \/ ResolvePath(d.path) = ""
      \/ r.err
      \/ r.out = ""
      \/ marked = {}
      \/ Trim(From(first, Index(first, "application-label:")
                            + Len("application-label:")), "'") = ""

\* C7: the record of an identifier whose label extraction fails has the
\* identifier as its label
C7_LabelFallsBack ==
  \A r \in Produced : LabelFails(r.Package) => r.Label = r.Package

\* collected: a label tool that failed, one without marker, an empty label
C7_Witness ==
  /\ pc = "sort"
  /\ pkgs = <<"dev.aaptfail", "dev.nomarker", "dev.emptylabel">>
  /\ \A k \in 1..Len(apps) :
       LabelFails(apps[k].Package) /\ apps[k].Label = apps[k].Package

\* the number of processing units, held between 4 and 16
PoolSize == SetMax({4, SetMin({16, ncpu})})

\* C8: once main has sized the pool, numWorkers is the number of processing
\* units held between 4 and 16, and that many workers are started: one per
\* round of the loop, all of them once the loop has ended
C8_PoolSize ==
  (pc \notin {"getPackages", "checkPackages", "sizePool"} /\ pkgs # <<>>) =>
    /\ numWorkers = PoolSize
    /\ BagCardinality(workers) = IF pc = "spawn" THEN i ELSE PoolSize

\* 64 processing units and 16 workers, all started
C8_Witness ==
  /\ ncpu = 64
  /\ pc = "enqueue"
  /\ numWorkers = 16
  /\ BagCardinality(workers) = 16

\* C9: when the selector returns a line it was given, the parse yields the
\* identifier and the entry point of the record of that line, and the run
\* goes on to the dispatch
C9_RoundTrip ==
  sel > 0 =>
    /\ pc \in {"dispatch", "exit"} =>
         pkg = apps[sel].Package /\ intent = apps[sel].Main
    /\ pc = "exit" => ran # <<>>

\* a string ends with a suffix
HasSuffix(s, suffix) ==
  Len(s) >= Len(suffix) /\ From(s, Len(s) - Len(suffix)) = suffix

\* one command was run, and it is the one the routing by this sentinel asks
\* for
RoutedBy(sentinel) ==
  /\ Len(ran) = 1
  /\ IF intent = sentinel
     THEN /\ ran[1].tool = "termux-open-url"
          /\ HasSuffix(ran[1].arg, "details?id=" \o pkg)
     ELSE /\ ran[1].tool = "am"
          /\ ran[1].arg = pkg \o "/" \o intent

\* C10, as claimed: a parsed selection is dispatched once, to the store page
\* when the entry point is UNKNOWN_ENTRY and to the launch tool otherwise,
\* and nothing else runs a command
C10_RoutingEntry ==
  IF pc = "exit" /\ exitCode = 0 THEN RoutedBy("UNKNOWN_ENTRY") ELSE ran = <<>>

\* C10, amended: a parsed selection is dispatched once, to the store page
\* when the entry point is UNKNOWN_MAIN and to the launch tool otherwise,
\* and nothing else runs a command
C10_RoutingMain ==
  IF pc = "exit" /\ exitCode = 0 THEN RoutedBy("UNKNOWN_MAIN") ELSE ran = <<>>

\* the store page was opened for the line of a collected record
C10_Witness ==
  /\ pc = "exit"
  /\ sel > 0
  /\ intent = "UNKNOWN_MAIN"
  /\ ran = << [tool |-> "termux-open-url",
               arg  |-> "https://play.google.com/store/apps/details?id=com.example.app",
               ok   |-> FALSE] >>

\* the line the parse works on (the output of the selector, trimmed) is
\* not empty and has no tab, or no pipe after its first tab
Malformed(buf) ==
  LET line == TrimSpace(buf)
      tab == Index(line, "\t")
  IN  /\ line # ""
      /\ \/ tab = -1
         \/ Index(From(line, tab + 1), "|") = -1

\* C11: a malformed selection line is never dispatched: the run ends with
\* exit status 1, a diagnostic as the last line of stderr, and no command run
C11_MalformedIsFatal ==
  Malformed(chosenBuf) =>
    /\ pc \in {"parse", "exit"}
    /\ ran = <<>>
    /\ pc = "exit" =>
         /\ exitCode = 1
         /\ stderr # <<>>
         /\ stderr[Len(stderr)] \in {"unexpected selection format",
                                     "unexpected package|main format"}

\* a line with a tab and no pipe after it has ended the run
C11_Witness ==
  /\ pc = "exit"
  /\ chosenBuf = "SomeApp\tcom.example.app\n"
  /\ exitCode = 1
  /\ stderr = <<"unexpected package|main format">>
  /\ ran = <<>>

\* C12: when getPackages yields no identifier, the run goes from the check
\* of pkgs to exit status 1: no worker is started, nothing is probed, the
\* selector is not run and no command is run
C12_NoPackages ==
  Listed[listing].pkgs = <<>> =>
    /\ pc \in {"getPackages", "checkPackages", "exit"}
    /\ workers = EmptyBag
    /\ in = <<>> /\ out = <<>> /\ apps = <<>>
    /\ fzfInput = "" /\ chosenBuf = "" /\ sel = 0
    /\ ran = <<>>
    /\ pc = "exit" => exitCode = 1

\* the listing tool failed without output and the run has ended
C12_Witness ==
  /\ pc = "exit"
  /\ listing = Tool("", "", TRUE)
  /\ pkgs = <<>>
  /\ exitCode = 1
  /\ stderr = <<"no packages found">>

\* C13: when the selector fails the run ends there with exit status 1, and
\* when it wrote nothing but white space the parse ends the run with exit
\* status 1; no command is run in either case
C13_CancelIsFatal ==
  [][/\ (pc = "fzf" /\ pc' = "exit") => (exitCode' = 1 /\ ran' = <<>>)
     /\ (pc = "parse" /\ TrimSpace(chosenBuf) = "" /\ pc' # pc) =>
          (pc' = "exit" /\ exitCode' = 1 /\ ran' = <<>>)]_vars

\* the selector wrote a blank line and the run has ended
C13_Witness ==
  /\ pc = "exit"
  /\ chosenBuf = " \n"
  /\ exitCode = 1
  /\ stderr = <<>>
  /\ ran = <<>>

\* C14: every step that ends the run is one of four: the check of pkgs with
\* no identifier, the selector failing, the parse of a blank or malformed
\* line, each with exit status 1; or the dispatch, with exit status 0
\* whether its command succeeded or not
C14_ExitStatus ==
  [][/\ (pc # "exit" /\ pc' = "exit") =>
          \/ pc = "checkPackages" /\ pkgs = <<>> /\ exitCode' = 1
          \/ pc = "fzf" /\ exitCode' = 1
          \/ /\ pc = "parse"
             /\ TrimSpace(chosenBuf) = "" \/ Malformed(chosenBuf)
             /\ exitCode' = 1
          \/ pc = "dispatch" /\ exitCode' = 0
     /\ (pc = "dispatch" /\ pc' # pc) =>
          (pc' = "exit" /\ exitCode' = 0 /\ Len(ran') = 1)]_vars

\* the launch failed and the exit status is 0
C14_Witness ==
  /\ pc = "exit"
  /\ exitCode = 0
  /\ Len(ran) = 1
  /\ ran[1].tool = "am"
  /\ ~ran[1].ok

\* every worker goroutine was started and has returned
AllWorkersDone ==
  /\ BagCardinality(workers) = numWorkers
  /\ \A w \in BagToSet(workers) : w.pc = "done"

\* C15: out is closed by the one step of the closing goroutine, which is
\* taken when every worker has returned and never again; while out is
\* closed every worker has returned, so none holds a record or sends one
C15_ClosedOnceAfterWorkers ==
  /\ [](outClosed => (AllWorkersDone /\ wg = 0 /\ closer = "done"))
  /\ [](exitCode # 2)
  /\ [][/\ (~outClosed /\ outClosed') =>
             (closer = "close" /\ closer' = "done" /\ AllWorkersDone)
        /\ outClosed => (outClosed' /\ closer' = "done")]_vars

\* out is closed while main has not yet received every record
C15_Witness ==
  /\ outClosed
  /\ pc = "drain"
  /\ Len(out) >= 2
  /\ AllWorkersDone
  /\ Len(apps) + Len(out) = Len(pkgs)

\* the number of identifiers main has sent on in
Enqueued ==
  IF pc \in {"getPackages", "checkPackages", "sizePool", "spawn"} THEN 0
  ELSE IF pc = "enqueue" THEN i
  ELSE Len(pkgs)

\* C16, as claimed: while main fills the queue no worker has received an
\* identifier, and there is always room for the next one
C16_EnqueuedBeforeDequeued ==
  pc = "enqueue" => (Len(in) = i /\ Len(in) < Len(pkgs))

\* C16, amended: main fills the queue before it closes it and there is
\* always room for the next identifier; the workers, all started before the
\* first identifier is sent, receive while main is still sending: the queue
\* holds, in the order of the list, the identifiers sent and not yet received
C16_EnqueuedBeforeClosed ==
  /\ pc = "enqueue" =>
       /\ Len(in) < Len(pkgs)
       /\ BagCardinality(workers) = numWorkers
  /\ inClosed => Enqueued = Len(pkgs)
  /\ Len(in) <= Enqueued
  /\ in = SubSeq(pkgs, Enqueued - Len(in) + 1, Enqueued)

\* a worker has received an identifier and main has more to send
C16_Witness ==
  /\ pc = "enqueue"
  /\ i >= 2
  /\ Len(in) < i
  /\ \E w \in BagToSet(workers) : w.pc = "send" /\ w.pkg = pkgs[1]
  /\ ~inClosed

\* the lookup of the main activity of an identifier, as runCmd returns it
ResolveOutput(id) == RunCmd(Device(id).resolve)

\* the lines of that output that have the name= marker
NameLines(id) ==
  {k \in 1..Len(ScanLines(ResolveOutput(id).out)) :
     Contains(ScanLines(ResolveOutput(id).out)[k], "name=")}

\* the trimmed text after the marker on the first line that has it
NameText(id) ==
  LET l == ScanLines(ResolveOutput(id).out)[SetMin(NameLines(id))]
  IN  TrimSpace(From(l, Index(l, "name=") + Len("name=")))

\* C17: a record has the sentinel as its entry point when the lookup has no
\* line with name= or is reported as failed, and any other entry point is
\* the trimmed text after name= on the first such line of a lookup that
\* succeeded
C17_FailedLookupGivesSentinel ==
  \A r \in Produced :
    /\ (NameLines(r.Package) = {} \/ ResolveOutput(r.Package).err)
         => r.Main = FallbackMain
    /\ r.Main # FallbackMain =>
         /\ ~ResolveOutput(r.Package).err
         /\ NameLines(r.Package) # {}
         /\ r.Main = NameText(r.Package)

\* the listing tool failed after writing something to its standard output
PartialListing == listing.err /\ TrimSpace(listing.out) # ""

\* C18: when the listing tool fails with some output the run goes on: the
\* identifiers of that output are in pkgs and are probed, and the warning
\* is on stderr once main has checked the outcome of the listing
C18_ListingFailureWarned ==
  (PartialListing /\ pc \notin {"getPackages", "checkPackages"}) =>
    /\ pkgs # <<>>
    /\ \A p \in {q \in {TrimPrefix(TrimSpace(l), "package:") :
                          l \in {ScanLines(listing.out)[k] :
                                   k \in 1..Len(ScanLines(listing.out))}} :
                   q # ""} :
         \E k \in 1..Len(pkgs) : pkgs[k] = p
    /\ pc = "sort" => Len(apps) = Len(pkgs)
    /\ \E k \in 1..Len(stderr) : stderr[k] = "error listing packages:"

\* C19: when main is about to run the selector, out is closed and empty,
\* every worker has returned, and the input of the selector has one line
\* per identifier, the line of the record at that place in apps
C19_SelectorAfterDrain ==
  pc = "fzf" =>
    /\ outClosed /\ out = <<>>
    /\ AllWorkersDone
    /\ Len(apps) = Len(pkgs)
    /\ Len(ScanLines(fzfInput)) = Len(pkgs)
    /\ \A k \in 1..Len(apps) :
         ScanLines(fzfInput)[k] \o "\n" = FormatLine(apps[k])

\* the selector is about to run on the list of more identifiers than workers
C19_Witness ==
  /\ pc = "fzf"
  /\ Len(pkgs) > numWorkers
  /\ Len(ScanLines(fzfInput)) = Len(pkgs)
  /\ closer = "done"

=============================================================================
